---- MODULE Spec2Model ----
(***************************************************************************)
(* A model of src/main.py: the chunker (chunk_document), the retrieval     *)
(* step (find_relevant_context with its embeddings cache), the streamed    *)
(* generation (analyze_documents_stream), the output sink (save_analysis)  *)
(* and the session loop of main.                                           *)
(*                                                                         *)
(* Strings are sequences of code points.  The two model services (the     *)
(* embedding provider and the chat provider) are opaque: each call either  *)
(* fails or returns a value chosen from a small set.                       *)
(***************************************************************************)
EXTENDS Integers, Sequences, FiniteSets, TLC

VARIABLES
    pc,                \* position of the running code
    text,              \* chunk_document: parameter text
    chunk_size,        \* chunk_document: parameter chunk_size
    overlap,           \* chunk_document: parameter overlap
    start,             \* chunk_document: local start
    chunks,            \* chunk_document: local chunks
    document_chunks,   \* dict name -> list of chunks, in insertion order
    top_k,             \* find_relevant_context: parameter top_k
    query,             \* the query being processed
    embeddings_cache,  \* dict cache key -> embedding
    query_embedding,   \* find_relevant_context: local query_embedding
    scan,              \* find_relevant_context: position of the nested for loops
    chunk_scores,      \* find_relevant_context: local chunk_scores
    relevant_chunks,   \* find_relevant_context: local relevant_chunks
    context,           \* find_relevant_context: returned context
    default_queries,   \* main: the query list
    qi,                \* main: index of the current query in default_queries
    response_parts,    \* analyze_documents_stream: local response_parts
    out_file,          \* the pieces written to out/analysis_<timestamp>.md
    exc,               \* the exception in flight, or "none"
    embed_log,         \* embedding provider: its calls for chunks, by cache key, answered or failed
    stream_log,        \* chat provider: one entry per stream it served
    ncalls             \* number of calls of find_relevant_context made so far

vars == <<pc, text, chunk_size, overlap, start, chunks, document_chunks, top_k,
          query, embeddings_cache, query_embedding, scan, chunk_scores,
          relevant_chunks, context, default_queries, qi, response_parts,
          out_file, exc, embed_log, stream_log, ncalls>>

chunkVars == <<text, chunk_size, overlap, start, chunks>>

frcVars == <<document_chunks, top_k, query, embeddings_cache, query_embedding,
             scan, chunk_scores, relevant_chunks, context, embed_log, ncalls>>

mainVars == <<default_queries, qi, response_parts, out_file, stream_log>>

(***************************************************************************)
(* Bounds of the model.                                                    *)
(***************************************************************************)
MaxTextLen == 5

MaxChunkSize == 3

MaxOverlap == 3

\* The loop of chunk_document is cut after this many iterations.  With
\* chunk_size > overlap the loop ends within Len(text) iterations, so the
\* cut is reached only by a configuration that does not advance.
MaxIter == MaxTextLen + 2

(***************************************************************************)
(* Strings and sequences.                                                  *)
(***************************************************************************)
Min(a, b) == IF a <= b THEN a ELSE b

Max(a, b) == IF a >= b THEN a ELSE b

\* The strings over Alphabet of length 0..n.
StringsUpTo(Alphabet, n) == UNION {[1..k -> Alphabet] : k \in 0..n}

\* Python's s[lo:hi] for integer lo, hi of any sign.
PySlice(s, lo, hi) ==
    LET n == Len(s)
        norm(i) == IF i < 0 THEN Max(i + n, 0) ELSE Min(i, n)
        a == norm(lo)
        b == norm(hi)
    IN  IF a >= b THEN <<>> ELSE SubSeq(s, a + 1, b)

(***************************************************************************)
(* chunk_document, one loop iteration per step.                            *)
(***************************************************************************)
ChunkAlphabet == {97, 98}

InitChunk ==
    /\ pc = "cd_loop"
    /\ text \in StringsUpTo(ChunkAlphabet, MaxTextLen)
    /\ chunk_size \in 0..MaxChunkSize
    /\ overlap \in 0..MaxOverlap
    /\ start = 0
    /\ chunks = <<>>
    /\ document_chunks = <<>>
    /\ top_k = 0
    /\ query = <<>>
    /\ embeddings_cache = <<>>
    /\ query_embedding = <<>>
    /\ scan = 0
    /\ chunk_scores = <<>>
    /\ relevant_chunks = <<>>
    /\ context = <<>>
    /\ default_queries = <<>>
    /\ qi = 0
    /\ response_parts = <<>>
    /\ out_file = <<>>
    /\ exc = "none"
    /\ embed_log = <<>>
    /\ stream_log = <<>>
    /\ ncalls = 0

\* Line 30 with the sign of overlap slipped.
NextStart_plus(end, ov) == end + ov

\* Line 30 advancing one character short.
NextStart_short(end, ov) == end - ov - 1

\* Line 30: start = end - overlap.
NextStart(end, ov) == end - ov

\* Lines 26-30: the loop test holds, one chunk is appended, start advances.
ChunkStep ==
    /\ pc = "cd_loop"
    /\ start < Len(text)
    /\ Len(chunks) < MaxIter
    /\ LET end == start + chunk_size
           chunk == PySlice(text, start, end)
       IN  /\ chunks' = Append(chunks, chunk)
           /\ start' = NextStart(end, overlap)
    /\ UNCHANGED <<pc, text, chunk_size, overlap>>
    /\ UNCHANGED <<frcVars, mainVars, exc>>

\* Lines 26, 31: the loop test fails, chunks is returned.
ChunkReturn ==
    /\ pc = "cd_loop"
    /\ ~(start < Len(text))
    /\ pc' = "cd_done"
    /\ UNCHANGED chunkVars
    /\ UNCHANGED <<frcVars, mainVars, exc>>

NextChunk == ChunkStep \/ ChunkReturn

SpecChunk == InitChunk /\ [][NextChunk]_vars

SpecChunkFair == SpecChunk /\ WF_vars(NextChunk)

\* Lines 26-31 from a given start: the chunks still to be appended.
RECURSIVE ChunksFrom(_, _, _, _)
ChunksFrom(t, from, size, ov) ==
    IF from < Len(t)
    THEN <<PySlice(t, from, from + size)>> \o ChunksFrom(t, NextStart(from + size, ov), size, ov)
    ELSE <<>>

\* Lines 22-31: chunk_document(text, chunk_size, overlap), for chunk_size > overlap.
chunk_document(t, size, ov) == ChunksFrom(t, 0, size, ov)

(***************************************************************************)
(* Properties of chunk_document.                                           *)
(***************************************************************************)
ValidChunking == chunk_size > overlap /\ overlap >= 0

\* Offset in text of the i-th returned chunk (i from 1).
ChunkOffset(i) == (i - 1) * (chunk_size - overlap)

\* One past the last position of text held by the i-th chunk.
ChunkEnd(i) == ChunkOffset(i) + Len(chunks[i])

\* Number of positions of text that chunks i and i+1 both hold.
SharedChars(i) == Max(0, ChunkEnd(i) - ChunkOffset(i + 1))

\* The last k characters of chunk i are the first k characters of chunk i+1.
SharesExactly(i, k) ==
    /\ SharedChars(i) = k
    /\ Len(chunks[i]) >= k
    /\ Len(chunks[i + 1]) >= k
    /\ SubSeq(chunks[i], Len(chunks[i]) - k + 1, Len(chunks[i])) = SubSeq(chunks[i + 1], 1, k)

ChunksCoverText ==
    /\ \A i \in 1..Len(chunks) :
          chunks[i] = SubSeq(text, ChunkOffset(i) + 1, ChunkEnd(i))
    /\ \A i \in 1..(Len(chunks) - 1) : ChunkOffset(i + 1) <= ChunkEnd(i)
    /\ \A p \in 1..Len(text) :
          \E i \in 1..Len(chunks) :
             /\ ChunkOffset(i) < p
             /\ p <= ChunkEnd(i)
             /\ chunks[i][p - ChunkOffset(i)] = text[p]

\* C6 (as claimed): for chunk_size <= overlap chunk_document fails fast: it
\* neither appends a chunk nor returns a result.
C6_RejectsInvalid ==
    (chunk_size <= overlap) => (Len(chunks) = 0 /\ pc # "cd_done")

\* C7: for chunk_size > overlap >= 0 chunk_document terminates, and the
\* returned chunks, in order, hold every position of text with no gap.
C7_TerminatesAndCovers ==
    /\ [](ValidChunking /\ pc = "cd_done" => ChunksCoverText)
    /\ (ValidChunking => <>(pc = "cd_done"))

C7_Witness ==
    /\ pc = "cd_done"
    /\ ValidChunking
    /\ overlap >= 1
    /\ Len(chunks) >= 3
    /\ Len(chunks[Len(chunks)]) < chunk_size

\* C8 (as claimed): adjacent chunks share exactly overlap characters, except
\* possibly the pair whose second member is the final chunk, and only the
\* final chunk is shorter than chunk_size.
C8_OnlyFinalShort ==
    (ValidChunking /\ pc = "cd_done") =>
        /\ \A i \in 1..(Len(chunks) - 2) : SharesExactly(i, overlap)
        /\ \A i \in 1..(Len(chunks) - 1) : Len(chunks[i]) = chunk_size

\* C8 (amended): adjacent chunks whose first member has the full length
\* chunk_size share exactly overlap characters, and a chunk shorter than
\* chunk_size runs to the end of text (several trailing chunks may be short).
C8_FullChunksOverlap ==
    (ValidChunking /\ pc = "cd_done") =>
        /\ \A i \in 1..(Len(chunks) - 1) :
              Len(chunks[i]) = chunk_size => SharesExactly(i, overlap)
        /\ \A i \in 1..Len(chunks) :
              /\ 1 <= Len(chunks[i])
              /\ Len(chunks[i]) <= chunk_size
              /\ Len(chunks[i]) < chunk_size => ChunkEnd(i) = Len(text)

C8_Witness ==
    /\ pc = "cd_done"
    /\ ValidChunking
    /\ Len(chunks) >= 3
    /\ Len(chunks[1]) = chunk_size
    /\ Len(chunks[Len(chunks) - 1]) < chunk_size
    /\ ~SharesExactly(Len(chunks) - 1, overlap)

(***************************************************************************)
(* find_relevant_context: keys, scores, ranking, formatting.               *)
(***************************************************************************)
Underscore == 95

DigitZero == 48

Newline == 10

Colon == 58

MaxChunks == 3

RetryChunks == 2

MaxTopK == 3

MaxCalls == 2

\* Python's str(i) for i >= 0.
RECURSIVE Digits(_)
Digits(i) == IF i < 10 THEN <<DigitZero + i>> ELSE Digits(i \div 10) \o <<DigitZero + (i % 10)>>

\* Line 41: f"{doc_name}_{i}".
CacheKey(doc_name, i) == doc_name \o <<Underscore>> \o Digits(i)

\* d[k] = v on a dict held as a function.
DictSet(d, k, v) == [x \in (DOMAIN d) \cup {k} |-> IF x = k THEN v ELSE d[x]]

\* Lines 39-40: the (doc_name, i, chunk) triples in the order the nested loops
\* visit them; items() follows the dict's insertion order, enumerate counts from 0.
RECURSIVE Items(_)
Items(dc) ==
    IF dc = <<>> THEN <<>>
    ELSE [j \in 1..Len(Head(dc).chunks) |->
             [doc_name |-> Head(dc).name, i |-> j - 1, chunk |-> Head(dc).chunks[j]]]
         \o Items(Tail(dc))

\* The vectors the embedding provider may return (none of norm zero).
EmbVals == {<<1, 0>>, <<1, 1>>, <<0, 1>>}

Dot(a, b) == a[1] * b[1] + a[2] * b[2]

Abs(x) == IF x < 0 THEN -x ELSE x

\* Line 20: dot(a, b) / (norm(a) * norm(b)), held as the fraction
\* dot*|dot| / (norm(a)^2 * norm(b)^2), which orders as the cosine does.
cosine_similarity(a, b) == [num |-> Dot(a, b) * Abs(Dot(a, b)), den |-> Dot(a, a) * Dot(b, b)]

ScoreLess(x, y) == x.num * y.den < y.num * x.den

ScoreEq(x, y) == x.num * y.den = y.num * x.den

\* Python's s < t on strings.
RECURSIVE StrLess(_, _)
StrLess(s, t) ==
    IF t = <<>> THEN FALSE
    ELSE IF s = <<>> THEN TRUE
    ELSE IF Head(s) # Head(t) THEN Head(s) < Head(t)
    ELSE StrLess(Tail(s), Tail(t))

\* Python's x < y on the tuples (similarity, doc_name, chunk) of line 46.
TupleLess(x, y) ==
    \/ ScoreLess(x.similarity, y.similarity)
    \/ /\ ScoreEq(x.similarity, y.similarity)
       /\ \/ StrLess(x.doc_name, y.doc_name)
          \/ x.doc_name = y.doc_name /\ StrLess(x.chunk, y.chunk)

\* Place x in a descending list, behind every element that is not less than it.
RECURSIVE InsertDesc(_, _)
InsertDesc(sorted, x) ==
    IF sorted = <<>> THEN <<x>>
    ELSE IF TupleLess(Head(sorted), x) THEN <<x>> \o sorted
    ELSE <<Head(sorted)>> \o InsertDesc(Tail(sorted), x)

\* An ascending sort.
RECURSIVE SortReverse_ascending(_)
SortReverse_ascending(s) ==
    IF s = <<>> THEN <<>>
    ELSE LET r == SortReverse_ascending(SubSeq(s, 1, Len(s) - 1))
             d == InsertDesc([j \in 1..Len(r) |-> r[Len(r) + 1 - j]], s[Len(s)])
         IN  [j \in 1..Len(d) |-> d[Len(d) + 1 - j]]

\* Line 49: list.sort(reverse=True): descending, equal elements keep their order.
RECURSIVE SortReverse(_)
SortReverse(s) ==
    IF s = <<>> THEN <<>>
    ELSE InsertDesc(SortReverse(SubSeq(s, 1, Len(s) - 1)), s[Len(s)])

\* Line 50: chunk_scores[:top_k].
TopSlice(s, k) == PySlice(s, 0, k)

\* Lines 53-55: context += f"\n{doc_name}:\n{chunk}\n" for each relevant chunk.
RECURSIVE FormatContext(_)
FormatContext(rel) ==
    IF rel = <<>> THEN <<>>
    ELSE <<Newline>> \o Head(rel).doc_name \o <<Colon, Newline>> \o Head(rel).chunk
         \o <<Newline>> \o FormatContext(Tail(rel))

\* The number of provider calls made for the chunk of cache key k.
EmbedCalls(k) == Cardinality({j \in 1..Len(embed_log) : embed_log[j].key = k})

\* Line 35: query_embedding = get_embeddings(query); the provider answers or fails.
EmbedQuery ==
    /\ pc = "frc_query"
    /\ \/ \E e \in EmbVals :
             /\ query_embedding' = e
             /\ chunk_scores' = <<>>
             /\ scan' = 1
             /\ pc' = "frc_scan"
             /\ exc' = exc
       \/ /\ exc' = "EmbeddingProviderError"
          /\ pc' = "raised"
          /\ UNCHANGED <<query_embedding, chunk_scores, scan>>
    /\ UNCHANGED <<document_chunks, top_k, query, embeddings_cache, relevant_chunks,
                   context, embed_log, ncalls>>
    /\ UNCHANGED <<chunkVars, mainVars>>

\* Lines 41-46 without the test of line 42: the provider is called every time.
ScanChunk_noCacheTest ==
    /\ pc = "frc_scan"
    /\ scan <= Len(Items(document_chunks))
    /\ LET item == Items(document_chunks)[scan]
           cache_key == CacheKey(item.doc_name, item.i)
       IN  \E e \in EmbVals :
              /\ embed_log' = Append(embed_log, [key |-> cache_key, ok |-> TRUE])
              /\ embeddings_cache' = DictSet(embeddings_cache, cache_key, e)
              /\ chunk_scores' = Append(chunk_scores,
                     [similarity |-> cosine_similarity(query_embedding, e),
                      doc_name |-> item.doc_name, chunk |-> item.chunk])
              /\ scan' = scan + 1
              /\ UNCHANGED <<pc, exc>>
    /\ UNCHANGED <<document_chunks, top_k, query, query_embedding, relevant_chunks,
                   context, ncalls>>
    /\ UNCHANGED <<chunkVars, mainVars>>

\* Lines 41-46 with the key entered in the cache before the provider answers,
\* so that a failed call leaves a placeholder behind.
ScanChunk_storeOnFailure ==
    /\ pc = "frc_scan"
    /\ scan <= Len(Items(document_chunks))
    /\ LET item == Items(document_chunks)[scan]
           cache_key == CacheKey(item.doc_name, item.i)
       IN  IF cache_key \notin DOMAIN embeddings_cache
           THEN \/ \E e \in EmbVals :
                      /\ embed_log' = Append(embed_log, [key |-> cache_key, ok |-> TRUE])
                      /\ embeddings_cache' = DictSet(embeddings_cache, cache_key, e)
                      /\ chunk_scores' = Append(chunk_scores,
                             [similarity |-> cosine_similarity(query_embedding, e),
                              doc_name |-> item.doc_name, chunk |-> item.chunk])
                      /\ scan' = scan + 1
                      /\ UNCHANGED <<pc, exc>>
                \/ /\ embed_log' = Append(embed_log, [key |-> cache_key, ok |-> FALSE])
                   /\ exc' = "EmbeddingProviderError"
                   /\ pc' = "raised"
                   /\ embeddings_cache' = DictSet(embeddings_cache, cache_key, <<0, 0>>)
                   /\ UNCHANGED <<chunk_scores, scan>>
           ELSE /\ chunk_scores' = Append(chunk_scores,
                       [similarity |-> cosine_similarity(query_embedding, embeddings_cache[cache_key]),
                        doc_name |-> item.doc_name, chunk |-> item.chunk])
                /\ scan' = scan + 1
                /\ UNCHANGED <<pc, exc, embeddings_cache, embed_log>>
    /\ UNCHANGED <<document_chunks, top_k, query, query_embedding, relevant_chunks,
                   context, ncalls>>
    /\ UNCHANGED <<chunkVars, mainVars>>

\* Lines 41-46: one iteration of the nested loops.  A key that is not cached
\* is computed by the provider, which answers (the key is stored) or fails
\* (the exception leaves the function before the assignment of line 43).
ScanChunk ==
    /\ pc = "frc_scan"
    /\ scan <= Len(Items(document_chunks))
    /\ LET item == Items(document_chunks)[scan]
           cache_key == CacheKey(item.doc_name, item.i)
       IN  IF cache_key \notin DOMAIN embeddings_cache
           THEN \/ \E e \in EmbVals :
                      /\ embed_log' = Append(embed_log, [key |-> cache_key, ok |-> TRUE])
                      /\ embeddings_cache' = DictSet(embeddings_cache, cache_key, e)
                      /\ chunk_scores' = Append(chunk_scores,
                             [similarity |-> cosine_similarity(query_embedding, e),
                              doc_name |-> item.doc_name, chunk |-> item.chunk])
                      /\ scan' = scan + 1
                      /\ UNCHANGED <<pc, exc>>
                \/ /\ embed_log' = Append(embed_log, [key |-> cache_key, ok |-> FALSE])
                   /\ exc' = "EmbeddingProviderError"
                   /\ pc' = "raised"
                   /\ UNCHANGED <<embeddings_cache, chunk_scores, scan>>
           ELSE /\ chunk_scores' = Append(chunk_scores,
                       [similarity |-> cosine_similarity(query_embedding, embeddings_cache[cache_key]),
                        doc_name |-> item.doc_name, chunk |-> item.chunk])
                /\ scan' = scan + 1
                /\ UNCHANGED <<pc, exc, embeddings_cache, embed_log>>
    /\ UNCHANGED <<document_chunks, top_k, query, query_embedding, relevant_chunks,
                   context, ncalls>>
    /\ UNCHANGED <<chunkVars, mainVars>>

\* Lines 48-57: the loops are over; sort, keep the first top_k, format, return.
RankChunks ==
    /\ pc = "frc_scan"
    /\ scan > Len(Items(document_chunks))
    /\ relevant_chunks' = TopSlice(SortReverse(chunk_scores), top_k)
    /\ context' = FormatContext(relevant_chunks')
    /\ pc' = "frc_returned"
    /\ UNCHANGED <<document_chunks, top_k, query, embeddings_cache, query_embedding,
                   scan, chunk_scores, exc, embed_log, ncalls>>
    /\ UNCHANGED <<chunkVars, mainVars>>

(***************************************************************************)
(* One call of find_relevant_context on an empty cache, for any            *)
(* document_chunks and any top_k >= 0.                                     *)
(***************************************************************************)
DocNames == {<<65>>, <<66>>}

ChunkTexts == {<<97>>, <<98>>}

QueryTexts == {<<81>>}

DefaultTopK == 3

\* The insertion-ordered dicts of documents of distinct names that hold up to
\* n chunks in all.
DocMaps(n) ==
    LET Doc == [name : DocNames, chunks : StringsUpTo(ChunkTexts, n)]
    IN  {dc \in StringsUpTo(Doc, Cardinality(DocNames)) :
            /\ \A a, b \in 1..Len(dc) : a # b => dc[a].name # dc[b].name
            /\ Len(Items(dc)) <= n}

InitFRC ==
    /\ pc = "frc_query"
    /\ text = <<>>
    /\ chunk_size = 0
    /\ overlap = 0
    /\ start = 0
    /\ chunks = <<>>
    /\ document_chunks \in DocMaps(MaxChunks)
    /\ top_k \in 0..MaxTopK
    /\ query \in QueryTexts
    /\ embeddings_cache = <<>>
    /\ query_embedding = <<>>
    /\ scan = 0
    /\ chunk_scores = <<>>
    /\ relevant_chunks = <<>>
    /\ context = <<>>
    /\ default_queries = <<>>
    /\ qi = 0
    /\ response_parts = <<>>
    /\ out_file = <<>>
    /\ exc = "none"
    /\ embed_log = <<>>
    /\ stream_log = <<>>
    /\ ncalls = 1

NextFRC == EmbedQuery \/ ScanChunk \/ RankChunks

SpecFRC == InitFRC /\ [][NextFRC]_vars

(***************************************************************************)
(* find_relevant_context called repeatedly on one cache by a caller that   *)
(* catches its exceptions.                                                 *)
(***************************************************************************)
InitRetry ==
    /\ pc = "idle"
    /\ text = <<>>
    /\ chunk_size = 0
    /\ overlap = 0
    /\ start = 0
    /\ chunks = <<>>
    /\ document_chunks \in DocMaps(RetryChunks)
    /\ top_k = DefaultTopK
    /\ query = <<>>
    /\ embeddings_cache = <<>>
    /\ query_embedding = <<>>
    /\ scan = 0
    /\ chunk_scores = <<>>
    /\ relevant_chunks = <<>>
    /\ context = <<>>
    /\ default_queries = <<>>
    /\ qi = 0
    /\ response_parts = <<>>
    /\ out_file = <<>>
    /\ exc = "none"
    /\ embed_log = <<>>
    /\ stream_log = <<>>
    /\ ncalls = 0

\* The caller calls find_relevant_context(query, document_chunks, embeddings_cache),
\* for the first time or after an earlier call has returned or raised.
CallerCalls ==
    /\ pc \in {"idle", "frc_returned", "raised"}
    /\ ncalls < MaxCalls
    /\ ncalls' = ncalls + 1
    /\ query' \in QueryTexts
    /\ pc' = "frc_query"
    /\ exc' = "none"
    /\ query_embedding' = <<>>
    /\ chunk_scores' = <<>>
    /\ relevant_chunks' = <<>>
    /\ context' = <<>>
    /\ scan' = 0
    /\ UNCHANGED <<document_chunks, top_k, embeddings_cache, embed_log>>
    /\ UNCHANGED <<chunkVars, mainVars>>

NextRetry == CallerCalls \/ EmbedQuery \/ ScanChunk \/ RankChunks

SpecRetry == InitRetry /\ [][NextRetry]_vars

(***************************************************************************)
(* analyze_documents_stream, save_analysis and the session loop of main.   *)
(***************************************************************************)
DefaultChunkSize == 2000

DefaultOverlap == 200

MaxDocuments == 2

MaxCustomQueries == 1

MaxFragments == 2

\* Stems of the file names the user may enter, and the contents of the files.
FileStems == {<<97>>, <<98>>}

FileContents == {<<>>, <<97>>}

\* The four queries of lines 172-177, and what the user may add (lines 180-186).
DefaultQueries == << <<81, 49>>, <<81, 50>>, <<81, 51>>, <<81, 52>> >>

CustomQueryTexts == {<<81, 53>>}

\* The text fragments the chat provider may stream as the n-th of a stream
\* (n from 1): "y", "z", ... so that the order of the fragments shows.
Fragments(n) == {<<120 + n>>}

\* str.upper() on ASCII letters.
Upper(str) == [j \in 1..Len(str) |-> IF str[j] >= 97 /\ str[j] <= 122 THEN str[j] - 32 ELSE str[j]]

\* d[name] = value on an insertion-ordered dict: a known name keeps its place.
OrderedSet(dc, name, value) ==
    IF \E j \in 1..Len(dc) : dc[j].name = name
    THEN [j \in 1..Len(dc) |-> IF dc[j].name = name THEN [name |-> name, chunks |-> value] ELSE dc[j]]
    ELSE Append(dc, [name |-> name, chunks |-> value])

\* Lines 160-166: load and chunk the documents, in the order entered.
RECURSIVE LoadDocuments(_)
LoadDocuments(documents) ==
    IF documents = <<>> THEN <<>>
    ELSE LET doc == documents[Len(documents)]
         IN  OrderedSet(LoadDocuments(SubSeq(documents, 1, Len(documents) - 1)),
                        Upper(doc.stem),
                        chunk_document(doc.content, DefaultChunkSize, DefaultOverlap))

\* Line 129: "".join(response_parts).
RECURSIVE Join(_)
Join(parts) == IF parts = <<>> THEN <<>> ELSE Head(parts) \o Join(Tail(parts))

\* save_analysis with the file opened for writing instead of appending.
save_analysis_truncating(file, q, response) ==
    << [kind |-> "query", text |-> q],
       [kind |-> "response", text |-> response],
       [kind |-> "rule", text |-> <<>>] >>

\* Lines 144-147: the three writes that append one record to the file.
save_analysis(file, q, response) ==
    file \o << [kind |-> "query", text |-> q],
               [kind |-> "response", text |-> response],
               [kind |-> "rule", text |-> <<>>] >>

\* The state of main at line 194: a non-empty list of documents is loaded and
\* chunked, the cache is empty, the query list is built, the file of this
\* session's timestamp holds nothing yet.
InitSession ==
    /\ pc = "main_loop"
    /\ text = <<>>
    /\ chunk_size = 0
    /\ overlap = 0
    /\ start = 0
    /\ chunks = <<>>
    /\ \E documents \in StringsUpTo([stem : FileStems, content : FileContents], MaxDocuments) :
          /\ documents # <<>>
          /\ document_chunks = LoadDocuments(documents)
    /\ top_k = DefaultTopK
    /\ query = <<>>
    /\ embeddings_cache = <<>>
    /\ query_embedding = <<>>
    /\ scan = 0
    /\ chunk_scores = <<>>
    /\ relevant_chunks = <<>>
    /\ context = <<>>
    /\ \E custom \in StringsUpTo(CustomQueryTexts, MaxCustomQueries) :
          default_queries = DefaultQueries \o custom
    /\ qi = 1
    /\ response_parts = <<>>
    /\ out_file = <<>>
    /\ exc = "none"
    /\ embed_log = <<>>
    /\ stream_log = <<>>
    /\ ncalls = 0

\* Lines 194-199: the next query of the list; find_relevant_context is called.
MainNextQuery ==
    /\ pc = "main_loop"
    /\ qi <= Len(default_queries)
    /\ query' = default_queries[qi]
    /\ ncalls' = ncalls + 1
    /\ pc' = "frc_query"
    /\ query_embedding' = <<>>
    /\ chunk_scores' = <<>>
    /\ relevant_chunks' = <<>>
    /\ scan' = 0
    /\ UNCHANGED <<document_chunks, top_k, embeddings_cache, context, embed_log, exc>>
    /\ UNCHANGED <<chunkVars, mainVars>>

\* Lines 202, 116-122: the context is returned to main; the chat is requested.
StreamStart ==
    /\ pc = "frc_returned"
    /\ pc' = "stream"
    /\ response_parts' = <<>>
    /\ stream_log' = Append(stream_log, [query |-> query, fragments |-> <<>>, status |-> "open"])
    /\ query_embedding' = <<>>
    /\ chunk_scores' = <<>>
    /\ relevant_chunks' = <<>>
    /\ scan' = 0
    /\ UNCHANGED <<document_chunks, top_k, query, embeddings_cache, context, embed_log, ncalls>>
    /\ UNCHANGED <<chunkVars, default_queries, qi, out_file, exc>>

\* Lines 123-126: the next fragment arrives and is appended.
StreamFragment ==
    /\ pc = "stream"
    /\ Len(response_parts) < MaxFragments
    /\ \E content \in Fragments(Len(response_parts) + 1) :
          /\ response_parts' = Append(response_parts, content)
          /\ stream_log' = [stream_log EXCEPT ![Len(stream_log)].fragments = Append(@, content)]
    /\ UNCHANGED <<pc, exc, default_queries, qi, out_file>>
    /\ UNCHANGED <<chunkVars, frcVars>>

\* A failing stream whose accumulated text is written all the same.
StreamFails_savingPartial ==
    /\ pc = "stream"
    /\ exc' = "GenerationProviderError"
    /\ pc' = "raised"
    /\ stream_log' = [stream_log EXCEPT ![Len(stream_log)].status = "failed"]
    /\ out_file' = save_analysis(out_file, query, Join(response_parts))
    /\ UNCHANGED <<default_queries, qi, response_parts>>
    /\ UNCHANGED <<chunkVars, frcVars>>

\* Line 123: the stream fails; the exception leaves analyze_documents_stream.
StreamFails ==
    /\ pc = "stream"
    /\ exc' = "GenerationProviderError"
    /\ pc' = "raised"
    /\ stream_log' = [stream_log EXCEPT ![Len(stream_log)].status = "failed"]
    /\ UNCHANGED <<default_queries, qi, response_parts, out_file>>
    /\ UNCHANGED <<chunkVars, frcVars>>

\* Lines 123, 127-129, 205: the stream ends; the joined text is returned and
\* saved, and the loop goes on to the next query.
StreamEnds ==
    /\ pc = "stream"
    /\ stream_log' = [stream_log EXCEPT ![Len(stream_log)].status = "eos"]
    /\ out_file' = save_analysis(out_file, query, Join(response_parts))
    /\ qi' = qi + 1
    /\ pc' = "main_loop"
    /\ UNCHANGED <<default_queries, response_parts, exc>>
    /\ UNCHANGED <<chunkVars, frcVars>>

\* Lines 194, 209: the list is exhausted; main reports the file and returns.
MainReturns ==
    /\ pc = "main_loop"
    /\ qi > Len(default_queries)
    /\ pc' = "main_done"
    /\ UNCHANGED <<chunkVars, frcVars, mainVars, exc>>

\* Lines 194-207 hold no try: an exception raised in the loop leaves main and
\* ends the process.
MainUncaught ==
    /\ pc = "raised"
    /\ pc' = "main_aborted"
    /\ UNCHANGED <<chunkVars, frcVars, mainVars, exc>>

NextSession ==
    \/ MainNextQuery
    \/ EmbedQuery
    \/ ScanChunk
    \/ RankChunks
    \/ StreamStart
    \/ StreamFragment
    \/ StreamFails
    \/ StreamEnds
    \/ MainReturns
    \/ MainUncaught

SpecSession == InitSession /\ [][NextSession]_vars

(***************************************************************************)
(* Properties of the session.                                              *)
(***************************************************************************)
\* The cache keys of the chunks of document_chunks.
ChunkKeys == {CacheKey(Items(document_chunks)[j].doc_name, Items(document_chunks)[j].i) :
                 j \in 1..Len(Items(document_chunks))}

\* The number of records the file holds.
NumRecords == Len(out_file) \div 3

\* The i-th record of the file is the query q with the response r.
IsRecord(i, q, r) ==
    /\ out_file[3 * i - 2] = [kind |-> "query", text |-> q]
    /\ out_file[3 * i - 1] = [kind |-> "response", text |-> r]
    /\ out_file[3 * i] = [kind |-> "rule", text |-> <<>>]

\* C1: within one session the provider is called at most once for each chunk
\* key; once a key is cached it is never computed again, lost or overwritten.
C1_AtMostOneEmbeddingPerKey ==
    /\ [](\A k \in ChunkKeys : EmbedCalls(k) <= 1)
    /\ [](DOMAIN embeddings_cache \subseteq ChunkKeys)
    /\ [][\A k \in DOMAIN embeddings_cache :
             /\ k \in DOMAIN embeddings_cache'
             /\ embeddings_cache'[k] = embeddings_cache[k]
             /\ EmbedCalls(k)' = EmbedCalls(k)]_vars

C1_Witness ==
    /\ pc = "main_done"
    /\ ncalls = Len(default_queries)
    /\ Cardinality(DOMAIN embeddings_cache) = 2
    /\ Len(embed_log) = 2

\* C3 (as claimed): an embedding failure during the retrieval of one query
\* does not end the session while later queries remain in the list.
C3_SessionContinues ==
    ~(/\ pc = "main_aborted"
      /\ exc = "EmbeddingProviderError"
      /\ qi < Len(default_queries))

\* C4: the file holds one record per stream that reached end-of-stream, each
\* with the concatenation of all fragments of that stream; the text of a
\* stream that failed is never written.
C4_NoPartialResponseSaved ==
    /\ Len(out_file) = 3 * NumRecords
    /\ NumRecords = Cardinality({j \in 1..Len(stream_log) : stream_log[j].status = "eos"})
    /\ \A i \in 1..NumRecords :
          /\ stream_log[i].status = "eos"
          /\ IsRecord(i, stream_log[i].query, Join(stream_log[i].fragments))
    /\ \A j \in 1..Len(stream_log) :
          stream_log[j].status = "failed" => j = Len(stream_log) /\ NumRecords = j - 1

C4_Witness ==
    /\ pc = "main_aborted"
    /\ exc = "GenerationProviderError"
    /\ Len(stream_log) = 2
    /\ stream_log[2].status = "failed"
    /\ Len(stream_log[2].fragments) = 2
    /\ NumRecords = 1

\* C5: when the session has run its N queries to completion, the file holds
\* exactly N records, in the order of the query list, each with the literal
\* query and the full response of that query, whatever the number of fragments.
C5_OneRecordPerQuery ==
    pc = "main_done" =>
        /\ Len(out_file) = 3 * Len(default_queries)
        /\ Len(stream_log) = Len(default_queries)
        /\ \A i \in 1..Len(default_queries) :
              IsRecord(i, default_queries[i], Join(stream_log[i].fragments))

C5_Witness ==
    /\ pc = "main_done"
    /\ Len(default_queries) = 5
    /\ NumRecords = 5
    /\ stream_log[1].fragments = <<>>
    /\ Len(stream_log[2].fragments) = 2
    /\ Len(stream_log[3].fragments) = 1

(***************************************************************************)
(* Properties of find_relevant_context.                                    *)
(***************************************************************************)
Count(s, x) == Cardinality({j \in 1..Len(s) : s[j] = x})

\* Place x in a list ordered by descending similarity, behind every element
\* whose similarity is not less than its own.
RECURSIVE InsertByScore(_, _)
InsertByScore(sorted, x) ==
    IF sorted = <<>> THEN <<x>>
    ELSE IF ScoreLess(Head(sorted).similarity, x.similarity) THEN <<x>> \o sorted
    ELSE <<Head(sorted)>> \o InsertByScore(Tail(sorted), x)

\* The ranking by descending similarity in which chunks of equal similarity
\* keep the order in which the loops saw them.
RECURSIVE RankedByInsertion(_)
RankedByInsertion(s) ==
    IF s = <<>> THEN <<>>
    ELSE InsertByScore(RankedByInsertion(SubSeq(s, 1, Len(s) - 1)), s[Len(s)])

\* C2: a provider failure inside find_relevant_context leaves the cache as it
\* was, without the failed key; a later call that returns has computed and
\* cached every key that failed before.
C2_FailureLeavesKeyUncached ==
    /\ [][(pc = "frc_scan" /\ pc' = "raised") =>
             /\ embeddings_cache' = embeddings_cache
             /\ embed_log'[Len(embed_log')].ok = FALSE
             /\ embed_log'[Len(embed_log')].key \notin DOMAIN embeddings_cache']_vars
    /\ [](pc = "frc_returned" =>
             \A j \in 1..Len(embed_log) :
                ~embed_log[j].ok =>
                   /\ embed_log[j].key \in DOMAIN embeddings_cache
                   /\ embeddings_cache[embed_log[j].key] \in EmbVals
                   /\ \E j2 \in (j + 1)..Len(embed_log) :
                         embed_log[j2].key = embed_log[j].key /\ embed_log[j2].ok)

C2_Witness ==
    /\ pc = "frc_returned"
    /\ ncalls = 2
    /\ Len(embed_log) = 3
    /\ embed_log[1].ok
    /\ ~embed_log[2].ok
    /\ embed_log[3].key = embed_log[2].key
    /\ embed_log[3].ok

\* C9 (as claimed): chunks of equal similarity are ranked in insertion order,
\* whatever their document names and texts.
C9_TiesByInsertionOrder ==
    pc = "frc_returned" =>
        relevant_chunks = TopSlice(RankedByInsertion(chunk_scores), top_k)

\* C10: the context holds exactly min(top_k, total_chunks) entries, in
\* non-increasing order of similarity, and no chunk left out scores strictly
\* higher than a chunk taken.
C10_TopKByScore ==
    pc = "frc_returned" =>
        /\ Len(relevant_chunks) = Min(top_k, Len(Items(document_chunks)))
        /\ Count(context, Colon) = Min(top_k, Len(Items(document_chunks)))
        /\ \A j \in 1..(Len(relevant_chunks) - 1) :
              ~ScoreLess(relevant_chunks[j].similarity, relevant_chunks[j + 1].similarity)
        /\ \A j \in 1..Len(chunk_scores) :
              /\ Count(relevant_chunks, chunk_scores[j]) <= Count(chunk_scores, chunk_scores[j])
              /\ Count(relevant_chunks, chunk_scores[j]) < Count(chunk_scores, chunk_scores[j]) =>
                    \A r \in 1..Len(relevant_chunks) :
                       ~ScoreLess(relevant_chunks[r].similarity, chunk_scores[j].similarity)
        /\ \A r \in 1..Len(relevant_chunks) : Count(chunk_scores, relevant_chunks[r]) >= 1

C10_Witness ==
    /\ pc = "frc_returned"
    /\ Len(chunk_scores) = 3
    /\ top_k = 2
    /\ Len(relevant_chunks) = 2
    /\ ScoreLess(chunk_scores[1].similarity, chunk_scores[2].similarity)
    /\ ScoreLess(chunk_scores[2].similarity, chunk_scores[3].similarity)
    /\ ScoreLess(relevant_chunks[2].similarity, relevant_chunks[1].similarity)

====
